---- MODULE Spec2Model ----
(***************************************************************************)
(* Model of the client-side state management of the personal website:      *)
(*   - HeadingGenerator (src/script.js): heading ids and the TOC list      *)
(*   - ThemeManager and VibeCheckManager (src/script.js and src/js/toc.js) *)
(*   - TOCManager (src/script.js and src/js/toc.js)                        *)
(* Each subsystem has its own specification; the variables of the other    *)
(* subsystems stay at their constructed values under it.                   *)
(***************************************************************************)
EXTENDS Integers, Sequences, FiniteSets, TLC

VARIABLES
  \* ---- HeadingGenerator (script.js) ----
  postContent,   \* TRUE iff the page has a .post-content element
  headings,      \* the h2 elements of .post-content: records [text, id]
  tocLinks,      \* the <a> children of #toc-list: records [href, dataHeadingId, text]
  hgHeadings,    \* HeadingGenerator.headings
  tocRuns        \* number of generateTOC calls made so far

varsH == <<postContent, headings, tocLinks, hgHeadings, tocRuns>>

VARIABLES
  \* ---- ThemeManager and VibeCheckManager ----
  env,           \* the page and the browser: [impl, hasVibe, hasPanel, storageMode]
  storedTheme,   \* localStorage item 'theme' (NoItem when absent)
  sysDark,       \* matchMedia('(prefers-color-scheme: dark)').matches
  tm,            \* ThemeManager: [phase, currentTheme, isVibeMode, originalTheme]
  vc,            \* VibeCheckManager: [phase, themes, currentThemeIndex, isLoaded,
                 \*   isOperationInProgress, errorCount, lastErrorTime (set or not)]
  dom,           \* the elements the two managers write
  pending,       \* callbacks not yet run: [raf, hideTimers, loads, images]
  outcome        \* the last handler run: [op, threw]

varsT == <<env, storedTheme, sysDark, tm, vc, dom, pending, outcome>>

\* The table of contents of a blog post (TOCManager of script.js and of js/toc.js)
VARIABLES
  tocEnv,      \* the page: which implementation, its markup, readyState at construction
  width,       \* window.innerWidth
  toc,         \* the TOCManager instance
  tocDom,      \* classes and attributes of the TOC elements
  focus,       \* document.activeElement
  tocPending,  \* timers waiting to fire
  tocOutcome   \* the handler that ran last

varsTOC == <<tocEnv, width, toc, tocDom, focus, tocPending, tocOutcome>>

\* The rest of the page (script.js)
VARIABLES
  scroll,      \* the ScrollTracker of a post, the geometry it reads, the link it marks
  bio,         \* the biography of the homepage and its BioCollapseManager
  app,         \* what initializeApp has assigned to window, class 'loaded' of body
  hg           \* the HeadingGenerator of js/toc.js and the headings it is given

varsX == <<scroll, bio, app, hg>>

vars == <<varsH, varsT, varsTOC, varsX>>

\* ------------------------------------------------------------------------
\* Bounds of the model
\* ------------------------------------------------------------------------
MaxHeadings == 2     \* h2 elements per post
MaxRuns == 2         \* generateTOC calls per page

\* ------------------------------------------------------------------------
\* Strings are sequences of one-character strings
\* ------------------------------------------------------------------------
UpperCase == <<"A","B","C","D","E","F","G","H","I","J","K","L","M",
               "N","O","P","Q","R","S","T","U","V","W","X","Y","Z">>
LowerCase == <<"a","b","c","d","e","f","g","h","i","j","k","l","m",
               "n","o","p","q","r","s","t","u","v","w","x","y","z">>
Digits == <<"0","1","2","3","4","5","6","7","8","9">>

Range(s) == {s[i] : i \in DOMAIN s}

\* String.prototype.toLowerCase, one character
toLowerCaseChar(c) ==
  IF \E i \in DOMAIN UpperCase : UpperCase[i] = c
  THEN LowerCase[CHOOSE i \in DOMAIN UpperCase : UpperCase[i] = c]
  ELSE c

toLowerCase(s) == [i \in DOMAIN s |-> toLowerCaseChar(s[i])]

\* regex classes \w and \s
IsWordChar(c) == c \in Range(UpperCase) \cup Range(LowerCase) \cup Range(Digits) \cup {"_"}
IsSpaceChar(c) == c \in {" ", "\t", "\n"}

\* length of the leading run of characters of s that are in set cs
RECURSIVE LeadingRun(_, _)
LeadingRun(s, cs) ==
  IF s = <<>> \/ Head(s) \notin cs THEN 0 ELSE 1 + LeadingRun(Tail(s), cs)

Drop(s, n) == SubSeq(s, n + 1, Len(s))

SpaceChars == {" ", "\t", "\n"}

\* .replace(/[^\w\s-]/g, '')
RemoveSpecial(s) ==
  SelectSeq(s, LAMBDA c : IsWordChar(c) \/ IsSpaceChar(c) \/ c = "-")

\* .replace(/\s+/g, '-')
RECURSIVE SpacesToHyphen(_)
SpacesToHyphen(s) ==
  IF s = <<>> THEN <<>>
  ELSE IF IsSpaceChar(Head(s))
       THEN <<"-">> \o SpacesToHyphen(Drop(s, LeadingRun(s, SpaceChars)))
       ELSE <<Head(s)>> \o SpacesToHyphen(Tail(s))

\* .replace(/--+/g, '-')
RECURSIVE CollapseHyphens(_)
CollapseHyphens(s) ==
  IF s = <<>> THEN <<>>
  ELSE IF LeadingRun(s, {"-"}) >= 2
       THEN <<"-">> \o CollapseHyphens(Drop(s, LeadingRun(s, {"-"})))
       ELSE <<Head(s)>> \o CollapseHyphens(Tail(s))

\* String.prototype.trim
RECURSIVE TrimEnd(_)
TrimEnd(s) ==
  IF s = <<>> \/ ~IsSpaceChar(s[Len(s)]) THEN s ELSE TrimEnd(SubSeq(s, 1, Len(s) - 1))

trim(s) == TrimEnd(Drop(s, LeadingRun(s, SpaceChars)))

\* String.prototype.substring(0, n)
substring0(s, n) == SubSeq(s, 1, IF Len(s) < n THEN Len(s) ELSE n)

\* decimal digits of a natural number (template literal `${index}`)
RECURSIVE ToDigits(_)
ToDigits(n) ==
  IF n < 10 THEN <<Digits[n + 1]>> ELSE ToDigits(n \div 10) \o <<Digits[(n % 10) + 1]>>

\* ------------------------------------------------------------------------
\* HeadingGenerator (script.js)
\* ------------------------------------------------------------------------
HEADING_ID_LENGTH == 50

\* ids of the elements of the page that are not headings
OtherIds == { <<"t","o","c","-","l","i","s","t">> }

\* document.getElementById(id) finds an element, in a page whose h2 elements are hs
getElementById(id, hs) ==
  id \in OtherIds \/ \E j \in DOMAIN hs : hs[j].id = id

\* the text pipeline of generateHeadingId
SanitizeHeading(text) ==
  substring0(trim(CollapseHyphens(SpacesToHyphen(RemoveSpecial(toLowerCase(text))))),
             HEADING_ID_LENGTH)

FallbackId(index) == <<"h","e","a","d","i","n","g","-">> \o ToDigits(index)

\* generateHeadingId(text, index), with the page's h2 elements hs
generateHeadingId(text, index, hs) ==
  LET id == SanitizeHeading(text)
  IN IF id = <<>> \/ getElementById(id, hs) THEN FallbackId(index) ELSE id

\* the forEach of generateTOC: ids of the first n headings assigned, in order
\* (index is the zero-based forEach index, n - 1 for the n-th heading)
RECURSIVE AssignIds(_, _)
AssignIds(hs, n) ==
  IF n = 0 THEN hs
  ELSE LET prev == AssignIds(hs, n - 1)
           h == prev[n]
       IN IF h.id = <<>>
          THEN [prev EXCEPT ![n].id = generateHeadingId(h.text, n - 1, prev)]
          ELSE prev

\* the <a> that generateTOC appends for heading h
LinkFor(h) == [href |-> <<"#">> \o h.id, dataHeadingId |-> h.id, text |-> h.text]

\* a generateTOC that appends to the list it finds
generateTOC_appending ==
  /\ tocRuns < MaxRuns
  /\ tocRuns' = tocRuns + 1
  /\ UNCHANGED <<postContent, varsT, varsTOC, varsX>>
  /\ LET done == AssignIds(headings, Len(headings))
     IN /\ headings' = done
        /\ hgHeadings' = [i \in DOMAIN done |-> done[i].id]
        /\ tocLinks' = tocLinks \o [i \in DOMAIN done |-> LinkFor(done[i])]

generateTOC ==
  /\ tocRuns < MaxRuns
  /\ tocRuns' = tocRuns + 1
  /\ UNCHANGED <<postContent, varsT, varsTOC, varsX>>
  /\ IF ~postContent
     THEN \* 'Post content not found': return []
          /\ hgHeadings' = hgHeadings
          /\ UNCHANGED <<headings, tocLinks>>
     ELSE IF Len(headings) = 0
     THEN \* this.headings is assigned before the early return
          /\ hgHeadings' = <<>>
          /\ UNCHANGED <<headings, tocLinks>>
     ELSE LET done == AssignIds(headings, Len(headings))
          IN /\ headings' = done
             /\ hgHeadings' = [i \in DOMAIN done |-> done[i].id]
             /\ tocLinks' = [i \in DOMAIN done |-> LinkFor(done[i])]

\* ------------------------------------------------------------------------
\* Heading texts a post may contain
\* ------------------------------------------------------------------------
LongText == [i \in 1..52 |-> IF i = 26 THEN " " ELSE "a"]

HeadingTexts ==
  { <<>>,
    <<"a">>, <<"A">>, <<"a"," ","b">>, <<"a","!">>, <<"!">>, <<" ">>, <<"-">>,
    <<"a"," ","-"," ","b">>,
    <<"H","e","a","d","i","n","g"," ","1">>,
    <<"h","e","a","d","i","n","g","-","0">>,
    <<"T","O","C"," ","l","i","s","t">>,
    <<"H","e","l","l","o"," ","W","o","r","l","d","!">>,
    <<"A","P","I"," ","&"," ","R","E","S","T"," ","S","e","r","v","i","c","e","s">>,
    LongText }

SeqsUpTo(S, n) == UNION {[1..k -> S] : k \in 0..n}

\* ------------------------------------------------------------------------
\* ThemeManager (script.js; js/toc.js differs in its storage access only)
\* ------------------------------------------------------------------------
NoItem == "null"       \* what getItem returns for an absent key
NoValue == "unset"     \* an attribute or style property that is not set
NaN == -1

Impls == {"script.js", "js/toc.js"}

\* localStorage of the browser: usable, write refused (quota), access refused
StorageModes == {"ok", "readonly", "denied"}

\* values that the key 'theme' may hold when a page loads
StoredThemes == {NoItem, "light", "dark", "blue"}

\* a reading of the stored value that never finds a theme
Truthy_never(v) == FALSE

Truthy(s) == s # NoItem /\ s # ""

\* the custom properties exitVibeMode removes
vibeProperties ==
  { "--background", "--foreground", "--card", "--card-foreground",
    "--popover", "--popover-foreground", "--primary", "--primary-foreground",
    "--secondary", "--secondary-foreground", "--muted", "--muted-foreground",
    "--accent", "--accent-foreground", "--destructive", "--destructive-foreground",
    "--border", "--input", "--ring", "--link", "--link-hover" }

\* the state the handlers read and write, as one record
World ==
  [env |-> env, storedTheme |-> storedTheme, sysDark |-> sysDark, tm |-> tm,
   vc |-> vc, dom |-> dom, pending |-> pending, outcome |-> outcome]

BecomesTheme(w) ==
  /\ env' = w.env
  /\ storedTheme' = w.storedTheme
  /\ sysDark' = w.sysDark
  /\ tm' = w.tm
  /\ vc' = w.vc
  /\ dom' = w.dom
  /\ pending' = w.pending
  /\ outcome' = w.outcome

Becomes(w) == BecomesTheme(w) /\ UNCHANGED <<varsH, varsTOC, varsX>>

\* a handler starts / ends by an exception
Enter(w, op) == [w EXCEPT !.outcome = [op |-> op, threw |-> FALSE]]
Throw(w) == [w EXCEPT !.outcome.threw = TRUE]

\* localStorage.getItem('theme'): [threw, value]
localStorage_getItem(w) ==
  IF w.env.storageMode = "denied"
  THEN [threw |-> TRUE, value |-> NoItem]
  ELSE [threw |-> FALSE, value |-> w.storedTheme]

\* storage.get('theme') of js/toc.js: the exception is caught, null returned
storage_get(w) ==
  LET r == localStorage_getItem(w)
  IN IF r.threw THEN [threw |-> FALSE, value |-> NoItem] ELSE r

\* localStorage.setItem('theme', value): the world after it, threw set on failure
localStorage_setItem(w, value) ==
  IF w.env.storageMode \in {"denied", "readonly"}
  THEN Throw(w)
  ELSE [w EXCEPT !.storedTheme = value]

\* storage.set('theme', value) of js/toc.js: the exception is caught
storage_set(w, value) ==
  LET r == localStorage_setItem(w, value)
  IN IF r.outcome.threw THEN w ELSE r

\* a toggleTheme that does not persist what it applied
setTheme_dropped(w, value) == w

getTheme(w) == IF w.env.impl = "script.js" THEN localStorage_getItem(w) ELSE storage_get(w)
setTheme(w, value) ==
  IF w.env.impl = "script.js" THEN localStorage_setItem(w, value) ELSE storage_set(w, value)

updateToggleUI(w, isDark) ==
  [w EXCEPT !.dom.slider =
     IF isDark THEN (@ \ {"translate-x-1"}) \cup {"translate-x-6"}
               ELSE (@ \ {"translate-x-6"}) \cup {"translate-x-1"}]

\* an applyTheme that adds the class 'dark' and never removes it
applyTheme_addOnly(w, theme) ==
  LET w1 == updateToggleUI([w EXCEPT !.dom.htmlDark = @ \/ (theme = "dark")], theme = "dark")
  IN [w1 EXCEPT !.tm.currentTheme = theme,
                !.dom.ariaChecked = IF theme = "dark" THEN "true" ELSE "false"]

applyTheme(w, theme) ==
  LET w1 == updateToggleUI([w EXCEPT !.dom.htmlDark = (theme = "dark")], theme = "dark")
  IN [w1 EXCEPT !.tm.currentTheme = theme,
                !.dom.ariaChecked = IF theme = "dark" THEN "true" ELSE "false"]

initializeTheme(w) ==
  LET r == getTheme(w)
      systemTheme == IF w.sysDark THEN "dark" ELSE "light"
      chosen == IF Truthy(r.value) THEN r.value ELSE systemTheme
  IN IF r.threw THEN Throw(w)
     ELSE applyTheme([w EXCEPT !.tm.currentTheme = chosen], chosen)

\* setup: the page has #theme-toggle; the listeners are registered last
ThemeManager_setup(w) ==
  LET w1 == initializeTheme(w)
  IN IF w1.outcome.threw THEN [w1 EXCEPT !.tm.phase = "failed"]
     ELSE [w1 EXCEPT !.tm.phase = "ready"]

\* constructor and init; initializeApp runs once the document is no longer loading
ThemeManager_new(w) ==
  ThemeManager_setup(
    [w EXCEPT !.tm = [phase |-> "constructed", currentTheme |-> "light",
                      isVibeMode |-> FALSE, originalTheme |-> "light"]])

applyVibeTheme(w, themeColors) ==
  LET w1 == IF ~w.tm.isVibeMode
            THEN [w EXCEPT !.tm.originalTheme = w.tm.currentTheme, !.tm.isVibeMode = TRUE]
            ELSE w
  IN [w1 EXCEPT !.dom.rootStyle =
        [p \in DOMAIN @ |-> IF p \in DOMAIN themeColors THEN themeColors[p] ELSE @[p]]]

exitVibeMode(w) ==
  IF ~w.tm.isVibeMode THEN w
  ELSE LET w1 == [w EXCEPT !.dom.rootStyle =
                    [p \in DOMAIN @ |-> IF p \in vibeProperties THEN NoValue ELSE @[p]],
                  !.tm.currentTheme = w.tm.originalTheme]
           w2 == applyTheme(w1, w1.tm.currentTheme)
       IN [w2 EXCEPT !.tm.isVibeMode = FALSE]

\* ------------------------------------------------------------------------
\* VibeCheckManager (script.js)
\* ------------------------------------------------------------------------
MaxRaf == 1          \* animation-frame callbacks waiting to run
MaxHideTimers == 1   \* closePanel timers waiting to fire
MaxLoads == 2        \* loadThemes calls awaiting their fetch
MaxErrors == 1       \* errors handleSystemError has counted

\* the custom properties of the root element that are followed
StyleProps == {"--background", "--link"}

\* vibe-themes/theme-data.json as served
Synthwave ==
  [name |-> "Synthwave Sunset", image |-> "synthwave.jpg",
   colors |-> ("--background" :> "270 60% 11%") @@ ("--link" :> "340 100% 58%")]
CherOrleans ==
  [name |-> "Cher Orleans", image |-> "cher-orleans.jpg",
   colors |-> ("--background" :> "30 50% 11%")]
ThemeData == <<Synthwave, CherOrleans>>

\* how a loadThemes call ends: fetch rejects, response not ok, json() rejects,
\* no 'themes' member, an empty list, the themes
LoadOutcomes == {"reject", "http", "json", "missing", "empty", "ok"}

bodyClasses_script ==
  { "synthwave-active", "desert-pinon-active", "texas-wildflower-active",
    "falling-water-active", "park-ranger-active", "craftsman-comfort-active" }

\* the class showVibeTheme adds for a theme name ("" when it adds none)
classFor_script(name) ==
  IF name = "Synthwave Sunset" THEN "synthwave-active"
  ELSE IF name = "Desert Pinon" THEN "desert-pinon-active"
  ELSE IF name = "Texas Wildflower" THEN "texas-wildflower-active"
  ELSE IF name = "Falling Water" THEN "falling-water-active"
  ELSE IF name = "Park Ranger" THEN "park-ranger-active"
  ELSE IF name = "Craftsman Comfort" THEN "craftsman-comfort-active"
  ELSE ""

\* js/toc.js knows three more theme classes
bodyClasses_toc ==
  bodyClasses_script \cup {"cher-orleans-active", "star-stuff-active", "reader-beware-active"}

classFor_toc(name) ==
  IF classFor_script(name) # "" THEN classFor_script(name)
  ELSE IF name = "Cher Orleans" THEN "cher-orleans-active"
  ELSE IF name = "Star Stuff" THEN "star-stuff-active"
  ELSE IF name = "Reader Beware" THEN "reader-beware-active"
  ELSE ""

\* a showVibeTheme and reset that leave the earlier theme class in place
bodyClasses_none(w) == {}

bodyClasses(w) == IF w.env.impl = "script.js" THEN bodyClasses_script ELSE bodyClasses_toc
classFor(w, name) == IF w.env.impl = "script.js" THEN classFor_script(name) ELSE classFor_toc(name)

\* the class names of the closed and the open panel
HiddenClass(w) == IF w.env.impl = "script.js" THEN "hidden" ELSE "is-hidden"
VisibleClass(w) == IF w.env.impl = "script.js" THEN "visible" ELSE "is-visible"

openPanel(w) ==
  IF w.env.hasPanel
  THEN [w EXCEPT !.dom.panel = @ \ {HiddenClass(w)},
                 !.dom.backdrop = @ \ {HiddenClass(w)},
                 !.pending.raf = @ + 1]
  ELSE w

\* the animation-frame callback of openPanel
openPanel_frame(w) ==
  [w EXCEPT !.dom.panel = @ \cup {VisibleClass(w)},
            !.dom.backdrop = @ \cup {VisibleClass(w)},
            !.pending.raf = @ - 1]

closePanel(w) ==
  IF w.env.hasPanel
  THEN [w EXCEPT !.dom.panel = @ \ {VisibleClass(w)},
                 !.dom.backdrop = @ \ {VisibleClass(w)},
                 !.pending.hideTimers = @ + 1]
  ELSE w

\* the 300 ms timer of closePanel
closePanel_timer(w) ==
  [w EXCEPT !.dom.panel = @ \cup {HiddenClass(w)},
            !.dom.backdrop = @ \cup {HiddenClass(w)},
            !.pending.hideTimers = @ - 1]

isPanelOpen(w) == w.env.hasPanel /\ VisibleClass(w) \in w.dom.panel

showError(w, message) ==
  openPanel([w EXCEPT !.dom.errorText = message, !.dom.errorHidden = FALSE])

\* vibeImage.src and .alt become those of the theme
setImage(w, theme) ==
  [w EXCEPT !.dom.imageSrc = <<"vibe-themes/images/", theme.image>>,
            !.dom.imageAlt = <<theme.name, " theme">>]

showVibeTheme(w) ==
  IF ~w.vc.isLoaded \/ Len(w.vc.themes) = 0 THEN w
  ELSE IF w.vc.currentThemeIndex = NaN THEN Throw(w)
  ELSE LET currentTheme == w.vc.themes[w.vc.currentThemeIndex + 1]
           w0 == [w EXCEPT !.dom.errorHidden = TRUE,
                           !.dom.title = currentTheme.name]
           w1 == IF w.env.impl = "script.js"
                 THEN setImage([w0 EXCEPT !.pending.images = {currentTheme.name}], currentTheme)
                 ELSE [w0 EXCEPT !.pending.images = @ \cup {currentTheme.name}]
           w2 == applyVibeTheme(openPanel(w1), currentTheme.colors)
           cls == classFor(w, currentTheme.name)
       IN [w2 EXCEPT !.dom.bodyVibe =
             (@ \ bodyClasses(w)) \cup (IF cls = "" THEN {} ELSE {cls})]

\* (index + 1) % themes.length is NaN for an empty list
cycleToNextTheme(w) ==
  showVibeTheme(
    [w EXCEPT !.vc.currentThemeIndex =
       IF Len(w.vc.themes) = 0 \/ @ = NaN THEN NaN ELSE (@ + 1) % Len(w.vc.themes)])

\* loadThemes from the point where its awaits are over: nothing is read or
\* written between the fetch and the end of response.json()
loadThemes_done(w, how) ==
  IF how = "reject"
  THEN showError(w, <<"Connection failed - try using a local server">>)
  ELSE IF how = "http"
  THEN showError(w, <<"Server error: ", "HTTP 404: Not Found">>)
  ELSE IF how = "json"
  THEN showError(w, <<"Invalid theme data format">>)
  ELSE IF how \in {"missing", "empty"}
  THEN showError([w EXCEPT !.vc.themes = <<>>], <<"Unable to load themes">>)
  ELSE showVibeTheme([w EXCEPT !.vc.themes = ThemeData,
                               !.vc.isLoaded = TRUE,
                               !.vc.currentThemeIndex = 0])

\* a reset that also forgets the loaded themes
reset_forgetting(w) ==
  LET w1 == closePanel(w)
  IN [w1 EXCEPT !.dom.errorHidden = TRUE,
                !.vc.currentThemeIndex = 0,
                !.vc.isLoaded = FALSE,
                !.dom.bodyVibe = {}]

reset(w) ==
  LET w1 == closePanel(w)
  IN [w1 EXCEPT !.dom.errorHidden = TRUE,
                !.vc.currentThemeIndex = 0,
                !.dom.bodyVibe = @ \ bodyClasses(w)]

\* ThemeManager.toggleTheme (window.vibeCheckManager is set iff the manager exists)
toggleTheme(w) ==
  LET w1 == IF w.tm.isVibeMode
            THEN LET e == exitVibeMode(w)
                 IN IF e.vc.phase = "ready" THEN reset(e) ELSE e
            ELSE w
      next == IF w1.tm.currentTheme = "light" THEN "dark" ELSE "light"
      w2 == applyTheme([w1 EXCEPT !.tm.currentTheme = next], next)
  IN setTheme(w2, w2.tm.currentTheme)

\* the 'change' listener of the colour-scheme media query
systemThemeHandler(w, matches) ==
  LET r == getTheme(w)
      theme == IF matches THEN "dark" ELSE "light"
  IN IF r.threw THEN Throw(w)
     ELSE IF ~Truthy(r.value)
     THEN applyTheme([w EXCEPT !.tm.currentTheme = theme], theme)
     ELSE w

\* ------------------------------------------------------------------------
\* The page: construction, events, callbacks
\* ------------------------------------------------------------------------
\* the markup of a freshly loaded page (panel and error message not shown)
InitialDom(e) ==
  [htmlDark |-> FALSE,
   rootStyle |-> [p \in StyleProps |-> NoValue],
   ariaChecked |-> NoValue,
   slider |-> {},
   bodyVibe |-> {},
   panel |-> IF e.hasPanel THEN {IF e.impl = "script.js" THEN "hidden" ELSE "is-hidden"} ELSE {},
   backdrop |-> IF e.hasPanel THEN {IF e.impl = "script.js" THEN "hidden" ELSE "is-hidden"} ELSE {},
   errorHidden |-> TRUE,
   errorText |-> <<>>,
   title |-> "",
   imageSrc |-> <<>>,
   imageAlt |-> <<>>]

NoThemeManager ==
  [phase |-> "none", currentTheme |-> "light", isVibeMode |-> FALSE, originalTheme |-> "light"]

NoVibeCheckManager ==
  [phase |-> "none", themes |-> <<>>, currentThemeIndex |-> 0, isLoaded |-> FALSE,
   isOperationInProgress |-> FALSE, errorCount |-> 0, lastErrorTime |-> FALSE]

NothingPending == [raf |-> 0, hideTimers |-> 0, loads |-> 0, images |-> {}]

Envs ==
  {e \in [impl : Impls, hasVibe : BOOLEAN, hasPanel : BOOLEAN, storageMode : StorageModes] :
     e.hasPanel => e.hasVibe}

NoOutcome == [op |-> "none", threw |-> FALSE]

FreshPage(e) ==
  /\ tm = NoThemeManager
  /\ vc = NoVibeCheckManager
  /\ dom = InitialDom(e)
  /\ pending = NothingPending
  /\ outcome = NoOutcome

CanOpen(w) == w.env.hasPanel => w.pending.raf < MaxRaf
CanClose(w) == w.env.hasPanel => w.pending.hideTimers < MaxHideTimers

\* click on #theme-toggle
ThemeToggleClick ==
  /\ tm.phase = "ready"
  /\ tm.isVibeMode => CanClose(World)
  /\ Becomes(toggleTheme(Enter(World, "toggleTheme")))

\* the system colour-scheme preference changes
SystemThemeChange ==
  LET w1 == [World EXCEPT !.sysDark = ~sysDark]
  IN IF tm.phase = "ready"
     THEN Becomes(systemThemeHandler(Enter(w1, "systemThemeChange"), w1.sysDark))
     ELSE Becomes(w1)

\* the click handler of #vibe-check-btn up to its first await
vibeCheckHandler(w) ==
  IF ~w.vc.isLoaded
  THEN [Enter(w, "loadThemes") EXCEPT !.pending.loads = @ + 1]
  ELSE cycleToNextTheme(Enter(w, "cycleToNextTheme"))

\* js/toc.js runs the handler through safeExecute, which skips it while
\* another operation is in progress
safeExecute_vibeCheckHandler(w) ==
  IF w.vc.isOperationInProgress THEN Enter(w, "skipped")
  ELSE LET w1 == vibeCheckHandler(w)
       IN [w1 EXCEPT !.vc.isOperationInProgress = w1.pending.loads > w.pending.loads]

\* click on #vibe-check-btn
VibeClick ==
  /\ vc.phase = "ready"
  /\ IF ~vc.isLoaded THEN pending.loads < MaxLoads ELSE CanOpen(World)
  /\ Becomes(IF env.impl = "script.js" THEN vibeCheckHandler(World)
                                        ELSE safeExecute_vibeCheckHandler(World))

\* a pending loadThemes call runs to its end; in js/toc.js the finally block
\* of safeExecute follows
LoadDone ==
  /\ pending.loads > 0
  /\ CanOpen(World)
  /\ \E how \in LoadOutcomes :
       LET w1 == loadThemes_done(
                   [Enter(World, "loadThemes_done") EXCEPT !.pending.loads = @ - 1], how)
       IN Becomes(IF env.impl = "script.js" THEN w1
                  ELSE [w1 EXCEPT !.vc.isOperationInProgress = FALSE])

\* the browser runs an animation-frame callback of openPanel
Frame ==
  /\ pending.raf > 0
  /\ Becomes(openPanel_frame(Enter(World, "openPanel_frame")))

\* a closePanel timer fires
HideTimer ==
  /\ pending.hideTimers > 0
  /\ Becomes(closePanel_timer(Enter(World, "closePanel_timer")))

\* click on the backdrop or on the close button of the shown panel
PanelCloseClick ==
  /\ vc.phase = "ready"
  /\ env.hasPanel
  /\ HiddenClass(World) \notin dom.backdrop
  /\ CanClose(World)
  /\ Becomes(closePanel(Enter(World, "closePanel")))

\* keydown Escape
EscapeKey_vibe ==
  /\ vc.phase = "ready"
  /\ isPanelOpen(World) => CanClose(World)
  /\ LET w == Enter(World, "escapeKey")
     IN Becomes(IF isPanelOpen(w) THEN closePanel(w) ELSE w)

\* the image of the shown theme loads, or fails to
ThemeNamed(name) == CHOOSE t \in Range(ThemeData) : t.name = name

\* script.js: the browser has fetched vibeImage.src; js/toc.js: the promise
\* awaited by loadThemeImage resolves and the image is put in place
ImageLoad ==
  \E name \in pending.images :
    LET w1 == [Enter(World, "imageLoad") EXCEPT !.pending.images = @ \ {name}]
    IN Becomes(IF env.impl = "script.js" THEN w1 ELSE setImage(w1, ThemeNamed(name)))

\* script.js: vibeImage.onerror; js/toc.js: the catch block of loadThemeImage
ImageError ==
  /\ CanOpen(World)
  /\ \E name \in pending.images :
       Becomes(showError([Enter(World, "imageError") EXCEPT !.pending.images = @ \ {name}],
                         <<"Failed to load image: ", name>>))

\* js/toc.js handleSystemError; recent: the last handled error is less than
\* 5 seconds old
handleSystemError(w, recent) ==
  IF w.vc.lastErrorTime /\ recent THEN w
  ELSE LET w1 == [w EXCEPT !.vc.lastErrorTime = TRUE, !.vc.errorCount = @ + 1]
           userMessage == IF w1.vc.errorCount > 3
                          THEN <<"Theme system experiencing issues. Please refresh the page.">>
                          ELSE <<"Temporary theme issue. Please try again.">>
       IN [showError(w1, userMessage) EXCEPT !.vc.isOperationInProgress = FALSE]

\* js/toc.js: an 'unhandledrejection' event, or an 'error' event that names the
\* theme system, reaches the listeners the constructor has registered
GlobalError ==
  /\ env.impl = "js/toc.js"
  /\ vc.phase = "ready"
  /\ \E recent \in BOOLEAN :
       /\ (vc.lastErrorTime /\ recent) \/ (vc.errorCount < MaxErrors /\ CanOpen(World))
       /\ Becomes(handleSystemError(Enter(World, "globalError"), recent))

InitT ==
  /\ env \in Envs
  /\ storedTheme \in StoredThemes
  /\ sysDark \in BOOLEAN
  /\ FreshPage(env)

\* a page without theme toggle and vibe button, never initialized
IdleT ==
  /\ env = [impl |-> "script.js", hasVibe |-> FALSE, hasPanel |-> FALSE, storageMode |-> "ok"]
  /\ storedTheme = NoItem
  /\ sysDark = FALSE
  /\ FreshPage(env)

\* ------------------------------------------------------------------------
\* TOCManager
\* ------------------------------------------------------------------------
MaxTocTimers == 2    \* timers of one kind waiting to fire

DESKTOP_BREAKPOINT == 1024
MOBILE_BREAKPOINT == 768

Widths == {767, 768, 1023, 1024}
FocusTargets == {"body", "toggle", "toc-link", "other"}

TocWorld ==
  [env |-> tocEnv, width |-> width, toc |-> toc, dom |-> tocDom, focus |-> focus,
   pending |-> tocPending, outcome |-> tocOutcome]

TocAssign(w) ==
  /\ tocEnv' = w.env
  /\ width' = w.width
  /\ toc' = w.toc
  /\ tocDom' = w.dom
  /\ focus' = w.focus
  /\ tocPending' = w.pending
  /\ tocOutcome' = w.outcome

TocBecomes(w) == TocAssign(w) /\ UNCHANGED <<varsH, varsT, varsX>>

TocEnter(w, op) == [w EXCEPT !.outcome = op]

\* every kind of timer is within its bound
TimersWithin(w) ==
  /\ w.pending.hide <= MaxTocTimers
  /\ w.pending.focusLink <= MaxTocTimers
  /\ w.pending.resize <= MaxTocTimers
  /\ w.pending.collapse <= MaxTocTimers

TocHidden(w) == IF w.env.impl = "script.js" THEN "hidden" ELSE "is-hidden"

\* ---- script.js ----
\* a viewport test that never sees a desktop
isDesktop_never(w) == FALSE

isDesktop(w) == w.width >= DESKTOP_BREAKPOINT

openTOC(w) ==
  LET w1 == [w EXCEPT !.toc.isOpen = TRUE,
                      !.dom.panel = (@ \ {"hidden"}) \cup {"visible"},
                      !.dom.hamburger = @ \cup {"hidden"},
                      !.dom.close = @ \ {"hidden"}]
      w2 == IF w.width < DESKTOP_BREAKPOINT
            THEN [w1 EXCEPT !.dom.overlay = (@ \ {"hidden"}) \cup {"visible"},
                            !.pending.focusLink = IF w.env.hasHeadings THEN @ + 1 ELSE @]
            ELSE w1
  IN [w2 EXCEPT !.dom.ariaExpanded = "true"]

closeTOC(w) ==
  [w EXCEPT !.toc.isOpen = FALSE,
            !.dom.panel = @ \ {"visible"},
            !.dom.hamburger = @ \ {"hidden"},
            !.dom.close = @ \cup {"hidden"},
            !.dom.overlay = @ \ {"visible"},
            !.dom.ariaExpanded = "false",
            !.focus = "toggle",
            !.pending.hide = @ + 1]

\* a hide timer that does not look at isOpen
closeTOC_timer_unguarded(w) ==
  [w EXCEPT !.pending.hide = @ - 1,
            !.dom.panel = @ \cup {"hidden"}, !.dom.overlay = @ \cup {"hidden"}]

\* the 150 ms timer of closeTOC
closeTOC_timer(w) ==
  LET w1 == [w EXCEPT !.pending.hide = @ - 1]
  IN IF ~w.toc.isOpen
     THEN [w1 EXCEPT !.dom.panel = @ \cup {"hidden"}, !.dom.overlay = @ \cup {"hidden"}]
     ELSE w1

toggleTOC(w) == IF w.toc.isOpen THEN closeTOC(w) ELSE openTOC(w)

\* an initial state that leaves the TOC as constructed
setInitialState_closed(w) == w

setInitialState(w) == IF isDesktop(w) THEN openTOC(w) ELSE w

\* a viewport handler that only ever opens
handleViewportChange_openOnly(w) ==
  IF w.width >= DESKTOP_BREAKPOINT /\ ~w.toc.isOpen THEN openTOC(w) ELSE w

handleViewportChange(w) ==
  IF isDesktop(w) /\ ~w.toc.isOpen THEN openTOC(w)
  ELSE IF ~isDesktop(w) /\ w.toc.isOpen THEN closeTOC(w)
  ELSE w

\* TOCManager.generateTOC: without headings the toggle is taken off the page
TOCManager_generateTOC(w) ==
  IF ~w.env.hasHeadings THEN [w EXCEPT !.dom.toggleDisplay = "none"] ELSE w

\* setupEventListeners keeps the viewport state seen last in a closure variable
setupEventListeners(w) ==
  [w EXCEPT !.toc.currentViewportState = IF isDesktop(w) THEN "desktop" ELSE "mobile"]

setup_script(w) ==
  IF ~w.env.hasTOC THEN [w EXCEPT !.toc.phase = "absent"]
  ELSE LET w1 == setInitialState(setupEventListeners(TOCManager_generateTOC(w)))
       IN [w1 EXCEPT !.toc.phase = "ready"]

\* the 'resize' listener
onResize_script(w) ==
  LET newViewportState == IF w.width >= DESKTOP_BREAKPOINT THEN "desktop" ELSE "mobile"
      w1 == IF w.toc.currentViewportState # newViewportState
            THEN LET a == IF newViewportState = "mobile" /\ w.toc.isOpen THEN closeTOC(w) ELSE w
                     b == IF newViewportState = "desktop"
                          THEN [a EXCEPT !.dom.overlay = @ \ {"visible"}] ELSE a
                 IN [b EXCEPT !.toc.currentViewportState = newViewportState]
            ELSE w
  IN [w1 EXCEPT !.pending.resize = 1]

\* the 'keydown' listener of the document
onKeydownEscape_script(w) == IF w.toc.isOpen THEN closeTOC(w) ELSE w

\* the 'click' listener of the list, for a click on a link
onLinkClick_script(w) ==
  LET w1 == [w EXCEPT !.focus = "toc-link"]
  IN IF w.width < DESKTOP_BREAKPOINT THEN closeTOC(w1) ELSE w1

\* ---- js/toc.js ----
isMobileDevice(w) == w.width < MOBILE_BREAKPOINT

expandTOC(w) ==
  LET w1 == [w EXCEPT !.toc.isCollapsed = FALSE,
                      !.dom.panel = (@ \cup {"is-visible"}) \ {"is-hidden"},
                      !.dom.overlay = (@ \cup {"is-visible"}) \ {"is-hidden"},
                      !.dom.ariaExpanded = "true",
                      !.dom.hamburger = @ \cup {"is-hidden"},
                      !.dom.close = @ \ {"is-hidden"}]
  IN IF w.env.hasHeadings /\ w.focus = "toggle"
     THEN [w1 EXCEPT !.pending.focusLink = @ + 1]
     ELSE w1

collapseTOC(w) ==
  [w EXCEPT !.toc.isCollapsed = TRUE,
            !.dom.panel = (@ \cup {"is-hidden"}) \ {"is-visible"},
            !.dom.overlay = (@ \cup {"is-hidden"}) \ {"is-visible"},
            !.dom.ariaExpanded = "false",
            !.dom.hamburger = @ \ {"is-hidden"},
            !.dom.close = @ \cup {"is-hidden"}]

toggleTOC_toc(w) == IF w.toc.isCollapsed THEN expandTOC(w) ELSE collapseTOC(w)

\* handleResize of setupResponsiveBehavior
handleResize(w) == IF isMobileDevice(w) THEN collapseTOC(w) ELSE expandTOC(w)

\* generateTOC: hideTOC without headings, showTOC with them
generateTOC_toc(w) ==
  [w EXCEPT !.dom.toggleDisplay = IF w.env.hasHeadings THEN "inline-block" ELSE "none"]

setup_toc(w) ==
  IF ~w.env.hasTOC THEN [w EXCEPT !.toc.phase = "absent"]
  ELSE [handleResize(generateTOC_toc(w)) EXCEPT !.toc.phase = "ready"]

\* the 'keydown' listener of the document, for the Escape key
handleTOCKeydown_Escape(w) == [collapseTOC(w) EXCEPT !.focus = "toggle"]

onKeydownEscape_toc(w) ==
  IF w.focus = "toc-link" THEN handleTOCKeydown_Escape(w) ELSE w

\* the 'click' listeners of the document, for a click on a link of the list
handleTOCClick(w) ==
  IF isMobileDevice(w) THEN [w EXCEPT !.pending.collapse = @ + 1] ELSE w

onLinkClick_toc(w) == handleTOCClick([w EXCEPT !.focus = "toc-link"])

\* ---- both ----
setup(w) == IF w.env.impl = "script.js" THEN setup_script(w) ELSE setup_toc(w)

\* constructor and init
TOCManager_new(w) ==
  LET w1 == [w EXCEPT !.toc.isOpen = FALSE, !.toc.isCollapsed = TRUE]
  IN IF w.env.readyState = "loading"
     THEN [w1 EXCEPT !.toc.phase = "waiting"]
     ELSE setup(w1)

\* the elements as the markup has them: the closed state ("TOC is already
\* closed by default")
InitialTocDom(e) ==
  LET hidden == IF e.impl = "script.js" THEN "hidden" ELSE "is-hidden"
  IN [panel |-> IF e.hasTOC THEN {hidden} ELSE {},
      overlay |-> IF e.hasTOC THEN {hidden} ELSE {},
      hamburger |-> {},
      close |-> IF e.hasTOC THEN {hidden} ELSE {},
      ariaExpanded |-> IF e.hasTOC THEN "false" ELSE NoValue,
      toggleDisplay |-> ""]

NoTOCManager ==
  [phase |-> "none", isOpen |-> FALSE, isCollapsed |-> TRUE, currentViewportState |-> NoValue]

NoTimers == [hide |-> 0, focusLink |-> 0, resize |-> 0, collapse |-> 0]

TocEnvs ==
  {e \in [impl : Impls, hasTOC : BOOLEAN, hasHeadings : BOOLEAN,
          readyState : {"loading", "complete"}] : e.hasHeadings => e.hasTOC}

FreshTocPage(e) ==
  /\ toc = NoTOCManager
  /\ tocDom = InitialTocDom(e)
  /\ focus = "body"
  /\ tocPending = NoTimers
  /\ tocOutcome = "none"

\* a handler ran and left every kind of timer within its bound
TocStep(w) == TimersWithin(w) /\ TocBecomes(w)

\* new TOCManager(browser)
TOCManager_construct ==
  /\ toc.phase = "none"
  /\ TocStep(TOCManager_new(TocEnter(TocWorld, "constructor")))

DOMContentLoaded ==
  /\ toc.phase = "waiting"
  /\ TocStep(setup(TocEnter(TocWorld, "DOMContentLoaded")))

\* click on the toggle button, which takes the focus
TocToggleClick ==
  /\ toc.phase = "ready"
  /\ tocDom.toggleDisplay # "none"
  /\ LET w == [TocEnter(TocWorld, "toggleTOC") EXCEPT !.focus = "toggle"]
     IN TocStep(IF tocEnv.impl = "script.js" THEN toggleTOC(w) ELSE toggleTOC_toc(w))

\* click on the overlay while it is shown
OverlayClick ==
  /\ toc.phase = "ready"
  /\ TocHidden(TocWorld) \notin tocDom.overlay
  /\ LET w == [TocEnter(TocWorld, "overlayClick") EXCEPT !.focus = "body"]
     IN TocStep(IF tocEnv.impl = "script.js" THEN closeTOC(w) ELSE collapseTOC(w))

\* click on a link of the list while the panel is shown
LinkClick ==
  /\ toc.phase = "ready"
  /\ tocEnv.hasHeadings
  /\ TocHidden(TocWorld) \notin tocDom.panel
  /\ LET w == TocEnter(TocWorld, "linkClick")
     IN TocStep(IF tocEnv.impl = "script.js" THEN onLinkClick_script(w) ELSE onLinkClick_toc(w))

\* click on non-interactive content outside the TOC: js/toc.js collapses an
\* expanded TOC, script.js has no listener for it
ContentClick ==
  /\ toc.phase = "ready"
  /\ LET w == [TocEnter(TocWorld, "contentClick") EXCEPT !.focus = "body"]
     IN TocStep(IF tocEnv.impl = "js/toc.js" /\ ~w.toc.isCollapsed THEN collapseTOC(w) ELSE w)

\* keydown Escape, dispatched to the element that has the focus
EscapeKey_toc ==
  /\ toc.phase = "ready"
  /\ LET w == TocEnter(TocWorld, "keydownEscape")
     IN TocStep(IF tocEnv.impl = "script.js" THEN onKeydownEscape_script(w)
                                              ELSE onKeydownEscape_toc(w))

\* the window is resized; js/toc.js starts a new debounce timer on every event
Resize ==
  \E nw \in Widths \ {width} :
    LET w == [TocEnter(TocWorld, "resize") EXCEPT !.width = nw]
    IN IF toc.phase # "ready" THEN TocStep(w)
       ELSE TocStep(IF tocEnv.impl = "script.js" THEN onResize_script(w)
                    ELSE [w EXCEPT !.pending.resize = @ + 1])

ResizeTimer ==
  /\ tocPending.resize > 0
  /\ LET w == [TocEnter(TocWorld, "resizeTimer") EXCEPT !.pending.resize = @ - 1]
     IN TocStep(IF tocEnv.impl = "script.js" THEN handleViewportChange(w) ELSE handleResize(w))

TocHideTimer ==
  /\ tocPending.hide > 0
  /\ TocStep(closeTOC_timer(TocEnter(TocWorld, "hideTimer")))

\* the timer that moves the focus to the first link
FocusTimer ==
  /\ tocPending.focusLink > 0
  /\ TocStep([TocEnter(TocWorld, "focusTimer") EXCEPT !.pending.focusLink = @ - 1,
                                                      !.focus = "toc-link"])

\* js/toc.js: the timer handleTOCClick starts on a mobile viewport
CollapseTimer ==
  /\ tocPending.collapse > 0
  /\ TocStep(collapseTOC([TocEnter(TocWorld, "collapseTimer") EXCEPT !.pending.collapse = @ - 1]))

\* the user moves the focus with the Tab key
FocusMove ==
  \E f \in FocusTargets \ {focus} :
    /\ f = "toc-link" => tocEnv.hasHeadings
    /\ f = "toggle" => tocEnv.hasTOC /\ tocDom.toggleDisplay # "none"
    /\ TocStep([TocEnter(TocWorld, "focusMove") EXCEPT !.focus = f])

\* ------------------------------------------------------------------------
\* HeadingGenerator (js/toc.js)
\* ------------------------------------------------------------------------
MaxSlugHeadings == 3   \* headings of the content
MaxSlugCalls == 2      \* generateHeadingIds calls

\* .replace(/<[^>]*>/g, ''): a '<' with a later '>' goes with all between them
RECURSIVE StripTags(_)
StripTags(s) ==
  IF s = <<>> THEN <<>>
  ELSE IF Head(s) = "<" /\ \E k \in 2..Len(s) : s[k] = ">"
       THEN StripTags(Drop(s, CHOOSE k \in 2..Len(s) :
                                 s[k] = ">" /\ \A j \in 2..(k - 1) : s[j] # ">"))
       ELSE <<Head(s)>> \o StripTags(Tail(s))

\* .replace(/-+/g, '-')
RECURSIVE SingleHyphens(_)
SingleHyphens(s) ==
  IF s = <<>> THEN <<>>
  ELSE IF Head(s) = "-"
       THEN <<"-">> \o SingleHyphens(Drop(s, LeadingRun(s, {"-"})))
       ELSE <<Head(s)>> \o SingleHyphens(Tail(s))

\* .replace(/^-|-$/g, '')
StripEdgeHyphens(s) ==
  LET s1 == IF s # <<>> /\ Head(s) = "-" THEN Tail(s) ELSE s
  IN IF s1 # <<>> /\ s1[Len(s1)] = "-" THEN SubSeq(s1, 1, Len(s1) - 1) ELSE s1

\* the slug of generateSlug before it is made unique
baseSlug(text) ==
  LET slug == StripEdgeHyphens(SingleHyphens(SpacesToHyphen(RemoveSpecial(
                toLowerCase(StripTags(text))))))
  IN IF slug = <<>> THEN <<"h","e","a","d","i","n","g">> ELSE slug

\* the while loop of generateSlug, entered with a slug that is taken
RECURSIVE nextFreeSlug(_, _, _)
nextFreeSlug(base, counter, generatedIds) ==
  LET slug == base \o <<"-">> \o ToDigits(counter)
  IN IF slug \in generatedIds THEN nextFreeSlug(base, counter + 1, generatedIds) ELSE slug

\* generateSlug(text): the slug returned; it is added to generatedIds
generateSlug(text, generatedIds) ==
  IF baseSlug(text) \in generatedIds
  THEN nextFreeSlug(baseSlug(text), 1, generatedIds)
  ELSE baseSlug(text)

\* the forEach of generateHeadingIds over the first n headings:
\* [headings, generatedIds] after it
RECURSIVE slugHeadings(_, _)
slugHeadings(g, n) ==
  IF n = 0 THEN g
  ELSE LET prev == slugHeadings(g, n - 1)
           h == prev.headings[n]
           headingText == IF h.text # <<>> THEN h.text ELSE <<"h","e","a","d","i","n","g">>
           slug == generateSlug(headingText, prev.generatedIds)
       IN IF h.id # <<>> THEN prev
          ELSE [prev EXCEPT !.headings[n].id = slug,
                            !.generatedIds = @ \cup {slug}]

\* texts and ids the headings of the content may carry in the markup
SlugTexts ==
  { <<>>, <<"A">>, <<"A"," ","1">>, <<"!">>, <<"-","a"," ","-">>, <<"<","b",">","A">> }
MarkupIds == { <<>>, <<"a">>, <<"a","-","1">> }

NoSlugs == [headings |-> <<>>, generatedIds |-> {}, calls |-> 0]

\* a post: the ids written in the markup are pairwise distinct
InitSlugs ==
  \E hs \in UNION {[1..n -> [text : SlugTexts, id : MarkupIds]] : n \in 0..MaxSlugHeadings} :
    /\ \A i, j \in DOMAIN hs : (i # j /\ hs[i].id # <<>>) => hs[i].id # hs[j].id
    /\ hg = [NoSlugs EXCEPT !.headings = hs]

IdleSlugs == hg = NoSlugs

\* HeadingGenerator.generateHeadingIds(contentElement)
generateHeadingIds ==
  /\ hg.calls < MaxSlugCalls
  /\ hg' = [slugHeadings(hg, Len(hg.headings)) EXCEPT !.calls = @ + 1]
  /\ UNCHANGED <<varsH, varsT, varsTOC, scroll, bio, app>>

\* ------------------------------------------------------------------------
\* ScrollTracker (script.js)
\* ------------------------------------------------------------------------
MaxTracked == 2      \* headings the tracker follows

BOTTOM_THRESHOLD == 100

\* geometry of the model: offsets of the headings from the top of the document,
\* heights of the window and of the document, scroll positions
HeadingTops == {0, 30, 31, 150, 320}
WindowHeights == {100}
DocHeights == {150, 400}
PageYOffsets == {0, 1, 120, 199, 200, 300}
TrackedIds == <<"intro", "setup", "usage", "notes">>

\* heading.getBoundingClientRect().top
rectTop(s, i) == s.headings[i].top - s.pageYOffset

\* the loop of updateActiveHeading from heading i on: the id of the last heading
\* of the run whose top is at most windowHeight * 0.3
RECURSIVE scanHeadings(_, _, _)
scanHeadings(s, i, activeId) ==
  IF i > Len(s.headings) THEN activeId
  ELSE IF 10 * rectTop(s, i) <= 3 * s.windowHeight
       THEN scanHeadings(s, i + 1, s.headings[i].id)
       ELSE activeId

\* ScrollTracker.setActiveHeading: the link of the list with class 'active'
setActiveHeading(s, headingId) ==
  IF s.activeHeading = headingId THEN s
  ELSE [s EXCEPT !.activeLink = IF Truthy(headingId) THEN headingId ELSE NoItem,
                 !.activeHeading = headingId]

updateActiveHeading_everywhere(s) ==
  IF Len(s.headings) = 0 THEN s ELSE setActiveHeading(s, scanHeadings(s, 1, NoItem))

updateActiveHeading(s) ==
  IF Len(s.headings) = 0 THEN s
  ELSE LET isNearBottom ==
             s.pageYOffset + s.windowHeight >= s.docHeight - BOTTOM_THRESHOLD
           activeId == IF isNearBottom THEN s.headings[Len(s.headings)].id
                       ELSE scanHeadings(s, 1, NoItem)
       IN setActiveHeading(s, activeId)

NoScrollTracker ==
  [phase |-> "none", headings |-> <<>>, windowHeight |-> 100, docHeight |-> 150,
   pageYOffset |-> 0, activeHeading |-> NoItem, activeLink |-> NoItem,
   isThrottled |-> FALSE, timers |-> 0, op |-> "none"]

\* the headings of a post in document order, each above the end of the document
TrackedHeadings(dh) ==
  {hs \in UNION {[1..n -> [id : {TrackedIds[i] : i \in DOMAIN TrackedIds}, top : HeadingTops]] :
                   n \in 0..MaxTracked} :
     /\ \A i \in DOMAIN hs : hs[i].id = TrackedIds[i] /\ hs[i].top < dh
     /\ \A i, j \in DOMAIN hs : i < j => hs[i].top < hs[j].top}

\* the window cannot scroll past the end of the document
CanScrollTo(s, y) == y = 0 \/ y + s.windowHeight <= s.docHeight

ScrollBecomes(s) ==
  /\ scroll' = s
  /\ UNCHANGED <<varsH, varsT, varsTOC, bio, app, hg>>

\* TOCManager.initScrollTracking: the listener is added, the first update made
initScrollTracking ==
  /\ scroll.phase = "constructed"
  /\ ScrollBecomes(updateActiveHeading([scroll EXCEPT !.phase = "tracking", !.op = "init"]))

\* the page scrolls; the listener updates at once unless throttled
ScrollEvent ==
  \E y \in PageYOffsets \ {scroll.pageYOffset} :
    /\ scroll.phase # "none"
    /\ CanScrollTo(scroll, y)
    /\ LET s == [scroll EXCEPT !.pageYOffset = y]
       IN IF s.phase = "tracking" /\ ~s.isThrottled
          THEN ScrollBecomes([updateActiveHeading(s) EXCEPT !.isThrottled = TRUE,
                                                            !.timers = @ + 1,
                                                            !.op = "scroll"])
          ELSE ScrollBecomes([s EXCEPT !.op = "scrollSkipped"])

\* the 16 ms timer of the throttle
ThrottleTimer ==
  /\ scroll.timers > 0
  /\ ScrollBecomes(updateActiveHeading([scroll EXCEPT !.isThrottled = FALSE,
                                                      !.timers = @ - 1,
                                                      !.op = "timer"]))

\* a post whose TOCManager has constructed the ScrollTracker
InitScroll ==
  \E wh \in WindowHeights, dh \in DocHeights :
    \E hs \in TrackedHeadings(dh) :
      scroll = [NoScrollTracker EXCEPT !.phase = "constructed", !.headings = hs,
                                       !.windowHeight = wh, !.docHeight = dh]

IdleScroll == scroll = NoScrollTracker


\* ------------------------------------------------------------------------
\* BioCollapseManager (script.js)
\* ------------------------------------------------------------------------
BIO_BREAKPOINT == 768

\* the homepage markup (.bio-content, .bio-expand-btn) before any script has run
BioPage(hasContent, hasButton) ==
  [hasContent |-> hasContent, hasButton |-> hasButton, phase |-> "none",
   expanded |-> FALSE, op |-> "none"]

\* setup: without one of the two elements no listener is registered
BioCollapseManager_setup(b) ==
  IF ~b.hasContent \/ ~b.hasButton
  THEN [b EXCEPT !.phase = "disabled"]
  ELSE [b EXCEPT !.phase = "ready"]

\* constructor and init, run when the document is no longer loading
BioCollapseManager_new(b) == BioCollapseManager_setup(b)

expandBio(b) ==
  IF b.hasContent THEN [b EXCEPT !.expanded = TRUE] ELSE b

\* a handleViewportChange that collapses on every resize
BioCollapseManager_handleViewportChange_always(b, w) ==
  IF b.hasContent THEN [b EXCEPT !.expanded = FALSE] ELSE b

BioCollapseManager_handleViewportChange(b, w) ==
  IF w > BIO_BREAKPOINT /\ b.hasContent THEN [b EXCEPT !.expanded = FALSE] ELSE b

\* click on .bio-expand-btn
BioExpandClick ==
  /\ bio.phase = "ready"
  /\ bio' = [expandBio(bio) EXCEPT !.op = "click"]
  /\ UNCHANGED <<varsH, varsT, varsTOC, scroll, app, hg>>

\* the window is resized on a page without TOCManager
BioResize ==
  \E nw \in Widths \ {width} :
    /\ toc.phase = "none"
    /\ width' = nw
    /\ bio' = IF bio.phase = "ready"
              THEN [BioCollapseManager_handleViewportChange(bio, nw) EXCEPT !.op = "resize"]
              ELSE [bio EXCEPT !.op = "resize"]
    /\ UNCHANGED <<varsH, varsT, tocEnv, toc, tocDom, focus, tocPending, tocOutcome, scroll, app, hg>>

IdleBio == bio = BioPage(FALSE, FALSE)

\* ------------------------------------------------------------------------
\* initializeApp
\* ------------------------------------------------------------------------
\* window.themeManager, .tocManager, .bioCollapseManager, .vibeCheckManager
\* are set; body has class 'loaded'
NoApp ==
  [themeManager |-> FALSE, tocManager |-> FALSE, bioCollapseManager |-> FALSE,
   vibeCheckManager |-> FALSE, loaded |-> FALSE]

IdleApp == app = NoApp

IdleX == IdleScroll /\ IdleBio /\ IdleApp /\ IdleSlugs

\* initializeApp's animation-frame callback, which runs once the document is
\* no longer loading: the ThemeManager, then the managers the markup asks for,
\* then the class 'loaded'.  In script.js an exception of the ThemeManager
\* constructor ends the callback; js/toc.js constructs its TOCManager elsewhere.
initializeApp ==
  /\ tm.phase = "none"
  /\ tocEnv.readyState # "loading"
  /\ LET w1 == ThemeManager_new(Enter(World, "initializeApp"))
         hasTOC == env.impl = "script.js" /\ tocEnv.hasTOC
         t == TOCManager_new(TocEnter(TocWorld, "constructor"))
     IN IF w1.outcome.threw
        THEN BecomesTheme(w1) /\ UNCHANGED <<varsH, varsTOC, varsX>>
        ELSE /\ BecomesTheme([w1 EXCEPT !.vc.phase = IF w1.env.hasVibe THEN "ready" ELSE "none"])
             /\ IF hasTOC THEN TimersWithin(t) /\ TocAssign(t) ELSE UNCHANGED varsTOC
             /\ bio' = IF bio.hasContent THEN BioCollapseManager_new(bio) ELSE bio
             /\ app' = [themeManager |-> TRUE,
                        tocManager |-> hasTOC,
                        bioCollapseManager |-> bio.hasContent,
                        vibeCheckManager |-> env.hasVibe,
                        loaded |-> TRUE]
             /\ UNCHANGED <<varsH, scroll, hg>>

\* the page is loaded anew: the browser keeps localStorage, its settings and
\* the size of the window
Reload ==
  /\ tm.phase # "none"
  /\ BecomesTheme([World EXCEPT !.tm = NoThemeManager, !.vc = NoVibeCheckManager,
                                 !.dom = InitialDom(env), !.pending = NothingPending,
                                 !.outcome = NoOutcome])
  /\ TocAssign([TocWorld EXCEPT !.toc = NoTOCManager, !.dom = InitialTocDom(tocEnv),
                                !.focus = "body", !.pending = NoTimers,
                                !.outcome = "none"])
  /\ bio' = BioPage(bio.hasContent, bio.hasButton)
  /\ app' = NoApp
  /\ UNCHANGED <<varsH, scroll, hg>>

NextT ==
  \/ initializeApp
  \/ ThemeToggleClick
  \/ SystemThemeChange
  \/ VibeClick
  \/ LoadDone
  \/ Frame
  \/ HideTimer
  \/ PanelCloseClick
  \/ EscapeKey_vibe
  \/ ImageLoad
  \/ ImageError
  \/ Reload

\* a page without .post-content
IdleH ==
  /\ postContent = FALSE
  /\ headings = <<>>
  /\ tocLinks = <<>>
  /\ hgHeadings = <<>>
  /\ tocRuns = 0

IdleTOC ==
  /\ tocEnv = [impl |-> "script.js", hasTOC |-> FALSE, hasHeadings |-> FALSE,
               readyState |-> "complete"]
  /\ width = DESKTOP_BREAKPOINT
  /\ FreshTocPage(tocEnv)

InitTOC ==
  /\ tocEnv \in TocEnvs
  /\ width \in Widths
  /\ FreshTocPage(tocEnv)
  /\ IdleH
  /\ IdleT
  /\ IdleX

NextTOC ==
  \/ TOCManager_construct
  \/ DOMContentLoaded
  \/ TocToggleClick
  \/ OverlayClick
  \/ LinkClick
  \/ ContentClick
  \/ EscapeKey_toc
  \/ Resize
  \/ ResizeTimer
  \/ TocHideTimer
  \/ FocusTimer
  \/ CollapseTimer
  \/ FocusMove

SpecTOC == InitTOC /\ [][NextTOC]_vars

InitH ==
  /\ postContent \in BOOLEAN
  /\ headings \in {[i \in DOMAIN ts |-> [text |-> ts[i], id |-> <<>>]] :
                     ts \in SeqsUpTo(HeadingTexts, MaxHeadings)}
  /\ (~postContent => headings = <<>>)
  /\ tocLinks = <<>>
  /\ hgHeadings = <<>>
  /\ tocRuns = 0

InitHeadings ==
  /\ InitH
  /\ IdleT
  /\ IdleTOC
  /\ IdleX

NextH == generateTOC

SpecHeadings == InitHeadings /\ [][NextH]_vars

\* pages with the theme toggle and, on the homepage, the vibe button; the markup
\* has no #vibe-panel, so openPanel and closePanel return at once
InitTheme ==
  /\ InitT
  /\ ~env.hasPanel
  /\ IdleH
  /\ IdleTOC
  /\ IdleX

NextTheme ==
  \/ initializeApp
  \/ ThemeToggleClick
  \/ SystemThemeChange
  \/ VibeClick
  \/ LoadDone
  \/ EscapeKey_vibe
  \/ ImageLoad
  \/ ImageError
  \/ Reload

SpecTheme == InitTheme /\ [][NextTheme]_vars

\* the homepage with the whole vibe markup, localStorage working and empty
InitVibe ==
  /\ InitT
  /\ env.hasVibe /\ env.hasPanel
  /\ env.storageMode = "ok"
  /\ storedTheme = NoItem
  /\ ~sysDark
  /\ IdleH
  /\ IdleTOC
  /\ IdleX

SpecVibe == InitVibe /\ [][NextT]_vars

\* a post being scrolled
InitScrolling ==
  /\ InitScroll
  /\ IdleH
  /\ IdleT
  /\ IdleTOC
  /\ IdleBio
  /\ IdleApp
  /\ IdleSlugs

NextScroll ==
  \/ initScrollTracking
  \/ ScrollEvent
  \/ ThrottleTimer

SpecScroll == InitScrolling /\ [][NextScroll]_vars

\* the homepage biography, on a page with the theme toggle
InitBio ==
  /\ \E c, b \in BOOLEAN : bio = BioPage(c, b)
  /\ env \in Envs /\ env.impl = "script.js" /\ ~env.hasVibe
  /\ storedTheme = NoItem
  /\ sysDark \in BOOLEAN
  /\ FreshPage(env)
  /\ tocEnv = [impl |-> "script.js", hasTOC |-> FALSE, hasHeadings |-> FALSE,
               readyState |-> "complete"]
  /\ width \in Widths
  /\ FreshTocPage(tocEnv)
  /\ IdleH
  /\ IdleScroll
  /\ IdleApp
  /\ IdleSlugs

NextBio ==
  \/ initializeApp
  \/ BioExpandClick
  \/ BioResize

SpecBio == InitBio /\ [][NextBio]_vars

\* every page script.js may be loaded on, at the moment initializeApp is called
InitApp ==
  /\ InitT /\ env.impl = "script.js"
  /\ tocEnv \in TocEnvs /\ tocEnv.impl = "script.js" /\ tocEnv.readyState = "complete"
  /\ width \in Widths
  /\ FreshTocPage(tocEnv)
  /\ \E c, b \in BOOLEAN : bio = BioPage(c, b)
  /\ IdleH
  /\ IdleScroll
  /\ IdleApp
  /\ IdleSlugs

NextApp ==
  \/ initializeApp
  \/ Reload

SpecApp == InitApp /\ [][NextApp]_vars

\* the homepage of js/toc.js, with the global error events its VibeCheckManager
\* listens to
InitErrors ==
  /\ InitT
  /\ env.impl = "js/toc.js"
  /\ env.hasVibe /\ env.hasPanel
  /\ env.storageMode = "ok"
  /\ storedTheme = NoItem
  /\ ~sysDark
  /\ IdleH
  /\ IdleTOC
  /\ IdleX

NextErrors ==
  \/ initializeApp
  \/ ThemeToggleClick
  \/ SystemThemeChange
  \/ VibeClick
  \/ LoadDone
  \/ Frame
  \/ HideTimer
  \/ PanelCloseClick
  \/ EscapeKey_vibe
  \/ ImageLoad
  \/ ImageError
  \/ GlobalError
  \/ Reload

SpecErrors == InitErrors /\ [][NextErrors]_vars

\* a post of js/toc.js whose headings receive their ids
InitSlugging ==
  /\ InitSlugs
  /\ IdleH
  /\ IdleT
  /\ IdleTOC
  /\ IdleScroll
  /\ IdleBio
  /\ IdleApp

NextSlugs == generateHeadingIds

SpecSlugs == InitSlugging /\ [][NextSlugs]_vars

\* ------------------------------------------------------------------------
\* C1: after generateTOC every heading has a non-empty id and no two
\* elements of the page share an id.
\* ------------------------------------------------------------------------
C1_HeadingIdsUnique ==
  (tocRuns > 0 /\ postContent) =>
    /\ \A i \in DOMAIN headings : headings[i].id # <<>>
    /\ \A i \in DOMAIN headings : headings[i].id \notin OtherIds
    /\ \A i, j \in DOMAIN headings : i # j => headings[i].id # headings[j].id

\* ------------------------------------------------------------------------
\* Properties of the theme and vibe managers
\* ------------------------------------------------------------------------
systemTheme == IF sysDark THEN "dark" ELSE "light"

\* C2: body carries at most one '*-active' vibe class, and none while
\* isVibeMode is false (both implementations).
C2_AtMostOneVibeClass ==
  /\ Cardinality(dom.bodyVibe) <= 1
  /\ ~tm.isVibeMode => dom.bodyVibe = {}

\* cycling has replaced the class of the first theme by that of the second
C2_Witness ==
  /\ outcome.op = "cycleToNextTheme"
  /\ tm.isVibeMode
  /\ dom.bodyVibe = {"cher-orleans-active"}

\* C3: in script.js, when toggleTheme has completed the stored 'theme' is
\* currentTheme, and a ThemeManager set up while a theme is stored applies
\* that theme whatever the system preference is.
C3_TogglePersists ==
  env.impl = "script.js" =>
    /\ (outcome.op = "toggleTheme" /\ ~outcome.threw) => storedTheme = tm.currentTheme
    /\ (outcome.op = "initializeApp" /\ tm.phase = "ready" /\ storedTheme # NoItem) =>
         /\ tm.currentTheme = storedTheme
         /\ dom.htmlDark = (storedTheme = "dark")

\* toggleTheme has stored 'light' although the system prefers dark
C3_Witness ==
  /\ env.impl = "script.js"
  /\ outcome.op = "toggleTheme" /\ ~outcome.threw
  /\ storedTheme = "light" /\ tm.currentTheme = "light"
  /\ sysDark

\* C4: in script.js, with no theme stored setup applies dark iff the system
\* prefers dark and every later change event applies the new preference; with
\* a theme stored a change event leaves currentTheme and the dark class alone.
C4_SystemPreference ==
  [][ env.impl = "script.js" =>
        /\ (outcome'.op = "initializeApp" /\ tm'.phase = "ready" /\ storedTheme = NoItem) =>
             (tm'.currentTheme = systemTheme /\ dom'.htmlDark = sysDark)
        /\ (sysDark' # sysDark /\ tm.phase = "ready" /\ ~outcome'.threw) =>
             IF storedTheme # NoItem
             THEN tm'.currentTheme = tm.currentTheme /\ dom'.htmlDark = dom.htmlDark
             ELSE tm'.currentTheme = systemTheme' /\ dom'.htmlDark = sysDark' ]_vars

\* the system preference has changed and the stored theme stayed applied
C4_Witness ==
  /\ env.impl = "script.js"
  /\ outcome.op = "systemThemeChange" /\ ~outcome.threw
  /\ storedTheme = "light" /\ sysDark
  /\ tm.currentTheme = "light" /\ ~dom.htmlDark

\* C7: no operation of ThemeManager (construction and setup, toggleTheme, the
\* system-preference handler) ends by an exception, also when localStorage
\* throws; both implementations.
C7_ThemeManagerNeverThrows ==
  outcome.op \in {"initializeApp", "toggleTheme", "systemThemeChange"} => ~outcome.threw

\* C8: in script.js a loadThemes call that fails shows an error message and
\* leaves isLoaded false, isVibeMode false and the root and body styling as
\* they were, so that the next click loads again.
C8_FailedLoad ==
  [][ (env.impl = "script.js" /\ outcome'.op = "loadThemes_done" /\ ~dom'.errorHidden) =>
        /\ dom'.errorText # <<>>
        /\ ~vc'.isLoaded
        /\ ~tm'.isVibeMode
        /\ dom'.rootStyle = dom.rootStyle
        /\ dom'.bodyVibe = dom.bodyVibe ]_vars

C6_EscapeCloses ==
  [][ (/\ toc.phase = "ready"
       /\ tocOutcome' = "keydownEscape"
       /\ IF tocEnv.impl = "script.js" THEN toc.isOpen ELSE ~toc.isCollapsed) =>
        IF tocEnv.impl = "script.js" THEN ~toc'.isOpen ELSE toc'.isCollapsed ]_vars

C10_PanelFollowsIsOpen ==
  (tocEnv.impl = "script.js" /\ toc.phase = "ready") =>
    /\ tocDom.ariaExpanded = (IF toc.isOpen THEN "true" ELSE "false")
    /\ ("visible" \in tocDom.panel) <=> toc.isOpen
    /\ toc.isOpen => "hidden" \notin tocDom.panel

\* the hide timer of an earlier close fired after the TOC was opened again
C10_Witness ==
  /\ tocEnv.impl = "script.js"
  /\ tocOutcome = "hideTimer"
  /\ toc.isOpen
  /\ "visible" \in tocDom.panel

\* C11: in script.js handleViewportChange opens a closed TOC on a desktop
\* viewport (width >= 1024), closes an open one on a narrower viewport and
\* otherwise changes nothing; when it returns isOpen equals isDesktop().
C11_ViewportChange ==
  [][ (tocEnv.impl = "script.js" /\ tocOutcome' = "resizeTimer") =>
        /\ toc'.isOpen = (width' >= 1024)
        /\ (toc.isOpen = (width >= 1024)) =>
             /\ toc' = toc
             /\ tocDom' = tocDom
             /\ focus' = focus
             /\ tocPending' = [tocPending EXCEPT !.resize = @ - 1] ]_vars

\* the debounced handler closed a TOC that was opened again on a narrow
\* viewport after the resize listener had closed it
C11_Witness ==
  /\ tocEnv.impl = "script.js"
  /\ tocOutcome = "resizeTimer"
  /\ width = 1023
  /\ ~toc.isOpen
  /\ tocPending.hide = 2

\* ------------------------------------------------------------------------
\* C12: when updateActiveHeading has run on a tracker with headings,
\* activeHeading is the last heading's id if scrollTop + windowHeight >=
\* documentHeight - 100; otherwise it is the id of the last heading of the
\* leading run of headings whose viewport top is at most 30% of the window
\* height, and null when the first heading lies below that line.
\* ------------------------------------------------------------------------
AboveLine(i) == 10 * (scroll.headings[i].top - scroll.pageYOffset) <= 3 * scroll.windowHeight

LeadingRunOfHeadings == {i \in DOMAIN scroll.headings : \A j \in 1..i : AboveLine(j)}

NearBottom == scroll.pageYOffset + scroll.windowHeight >= scroll.docHeight - 100

C12_ActiveHeading ==
  (scroll.op \in {"init", "scroll", "timer"} /\ Len(scroll.headings) >= 1) =>
     scroll.activeHeading =
       IF NearBottom THEN scroll.headings[Len(scroll.headings)].id
       ELSE IF LeadingRunOfHeadings = {} THEN NoItem
       ELSE scroll.headings[CHOOSE i \in LeadingRunOfHeadings :
                              \A j \in LeadingRunOfHeadings : j <= i].id

\* scrolled by one pixel, the first heading has reached the line and the second
\* has not
C12_Witness ==
  /\ scroll.op = "scroll"
  /\ Len(scroll.headings) = 2
  /\ ~NearBottom
  /\ LeadingRunOfHeadings = {1}
  /\ scroll.pageYOffset = 1
  /\ scroll.activeHeading = "intro"


\* ------------------------------------------------------------------------
\* C13: once ThemeManager.setup has completed, the html element has class
\* 'dark' iff currentTheme is 'dark', and the toggle's aria-checked is 'true'
\* iff currentTheme is 'dark' (and 'false' otherwise).
\* ------------------------------------------------------------------------
C13_DarkClassFollowsTheme ==
  tm.phase = "ready" =>
    /\ dom.htmlDark <=> (tm.currentTheme = "dark")
    /\ dom.ariaChecked = (IF tm.currentTheme = "dark" THEN "true" ELSE "false")

\* the toggle switched a page set up as dark back to light
C13_Witness ==
  /\ tm.phase = "ready"
  /\ outcome.op = "toggleTheme"
  /\ sysDark /\ storedTheme = "light"
  /\ tm.currentTheme = "light"
  /\ ~dom.htmlDark
  /\ dom.ariaChecked = "false"


\* ------------------------------------------------------------------------
\* C14: outside vibe mode every toggleTheme call flips the class 'dark' of the
\* html element and leaves currentTheme at the light or dark theme that is
\* then shown, whatever string setup read from storage.
\* ------------------------------------------------------------------------
C14_ToggleFlips ==
  [][ (ThemeToggleClick /\ ~tm.isVibeMode) =>
        /\ dom'.htmlDark = ~dom.htmlDark
        /\ tm'.currentTheme = (IF dom.htmlDark THEN "light" ELSE "dark") ]_vars

\* the same for a page whose stored theme is absent, 'light' or 'dark'
C14_ToggleFlipsKnownTheme ==
  [][ (ThemeToggleClick /\ ~tm.isVibeMode /\ tm.currentTheme \in {"light", "dark"}) =>
        /\ dom'.htmlDark = ~dom.htmlDark
        /\ tm'.currentTheme = (IF dom.htmlDark THEN "light" ELSE "dark") ]_vars


\* ------------------------------------------------------------------------
\* C15: toggleTheme called in vibe mode leaves vibe mode, resets the
\* VibeCheckManager (the panel starts to close, the body has no vibe class)
\* and makes currentTheme the opposite of the light or dark theme that was
\* shown when vibe mode was entered; working storage then holds that value.
\* ------------------------------------------------------------------------
C15_ToggleInVibeMode ==
  [][ (ThemeToggleClick /\ tm.isVibeMode) =>
        /\ ~tm'.isVibeMode
        /\ dom'.bodyVibe = {}
        /\ VisibleClass(World) \notin dom'.panel
        /\ env.hasPanel => pending'.hideTimers = pending.hideTimers + 1
        /\ tm'.currentTheme = (IF tm.originalTheme = "dark" THEN "light" ELSE "dark")
        /\ env.storageMode = "ok" => storedTheme' = tm'.currentTheme ]_vars

\* the same when vibe mode was entered from currentTheme 'light' or 'dark'
C15_ToggleInVibeModeKnownTheme ==
  [][ (ThemeToggleClick /\ tm.isVibeMode /\ tm.originalTheme \in {"light", "dark"}) =>
        /\ ~tm'.isVibeMode
        /\ dom'.bodyVibe = {}
        /\ VisibleClass(World) \notin dom'.panel
        /\ env.hasPanel => pending'.hideTimers = pending.hideTimers + 1
        /\ tm'.currentTheme = (IF tm.originalTheme = "dark" THEN "light" ELSE "dark")
        /\ env.storageMode = "ok" => storedTheme' = tm'.currentTheme ]_vars


\* ------------------------------------------------------------------------
\* C16: generateHeadingId maps 'API & REST Services' to 'api--rest-services':
\* the two spaces around the removed '&' yield two hyphens.  Stated of the
\* first heading of a post, whose generated id no other element can hold.
\* ------------------------------------------------------------------------
C16_ApiRestServices ==
  (tocRuns > 0 /\ postContent /\ Len(headings) >= 1
     /\ headings[1].text =
          <<"A","P","I"," ","&"," ","R","E","S","T"," ","S","e","r","v","i","c","e","s">>) =>
    headings[1].id =
      <<"a","p","i","-","-","r","e","s","t","-","s","e","r","v","i","c","e","s">>

\* what the code yields for that heading: one hyphen
C16_ApiRestServicesOneHyphen ==
  (tocRuns > 0 /\ postContent /\ Len(headings) >= 1
     /\ headings[1].text =
          <<"A","P","I"," ","&"," ","R","E","S","T"," ","S","e","r","v","i","c","e","s">>) =>
    headings[1].id =
      <<"a","p","i","-","r","e","s","t","-","s","e","r","v","i","c","e","s">>


\* ------------------------------------------------------------------------
\* C17: generateHeadingId returns the lower-cased text, with every character
\* other than word characters, whitespace and hyphens removed and each
\* whitespace character replaced by a hyphen, cut to at most 50 characters;
\* it returns 'heading-<index>' exactly when that result is empty or an
\* element with that id already exists.
\* ------------------------------------------------------------------------
C17_Described(text) ==
  LET kept == SelectSeq(toLowerCase(text),
                        LAMBDA c : IsWordChar(c) \/ IsSpaceChar(c) \/ c = "-")
      hyphened == [i \in DOMAIN kept |-> IF IsSpaceChar(kept[i]) THEN "-" ELSE kept[i]]
  IN SubSeq(hyphened, 1, IF Len(hyphened) < 50 THEN Len(hyphened) ELSE 50)

\* an element with id d existed when heading i received its id
C17_Taken(d, i) == d \in OtherIds \/ \E j \in 1..(i - 1) : headings[j].id = d

C17_HeadingIdAsDescribed ==
  (tocRuns > 0 /\ postContent) =>
    \A i \in DOMAIN headings :
      LET d == C17_Described(headings[i].text)
          fallback == d = <<>> \/ C17_Taken(d, i)
      IN /\ headings[i].id = (IF fallback THEN FallbackId(i - 1) ELSE d)
         /\ (headings[i].id = FallbackId(i - 1)) <=> fallback

\* the description holds for texts without a run of whitespace or hyphens
\* that do not spell the fallback id themselves
C17_NoRuns(text) ==
  LET kept == SelectSeq(toLowerCase(text),
                        LAMBDA c : IsWordChar(c) \/ IsSpaceChar(c) \/ c = "-")
  IN \A k \in 1..(Len(kept) - 1) :
       ~((IsSpaceChar(kept[k]) \/ kept[k] = "-") /\ (IsSpaceChar(kept[k+1]) \/ kept[k+1] = "-"))

C17_HeadingIdWithoutRuns ==
  (tocRuns > 0 /\ postContent) =>
    \A i \in DOMAIN headings :
      LET d == C17_Described(headings[i].text)
          fallback == d = <<>> \/ C17_Taken(d, i)
      IN C17_NoRuns(headings[i].text) =>
           /\ headings[i].id = (IF fallback THEN FallbackId(i - 1) ELSE d)
           /\ (d # FallbackId(i - 1)) => ((headings[i].id = FallbackId(i - 1)) <=> fallback)


\* ------------------------------------------------------------------------
\* C18: after generateTOC on a post with n >= 1 h2 headings the list holds
\* exactly n links in document order; the i-th link's href is '#' followed by
\* the i-th heading's id and its data-heading-id is that id; a second run
\* replaces the list instead of appending to it.
\* ------------------------------------------------------------------------
C18_LinksMatchHeadings ==
  (tocRuns > 0 /\ postContent /\ Len(headings) >= 1) =>
    /\ Len(tocLinks) = Len(headings)
    /\ \A i \in DOMAIN headings :
         /\ tocLinks[i].href = <<"#">> \o headings[i].id
         /\ tocLinks[i].dataHeadingId = headings[i].id
         /\ tocLinks[i].text = headings[i].text

\* generateTOC has run twice on a post with two headings
C18_Witness ==
  /\ tocRuns = 2
  /\ postContent
  /\ Len(headings) = 2
  /\ Len(tocLinks) = 2
  /\ tocLinks[2].href = <<"#","a","-","b">>


\* ------------------------------------------------------------------------
\* C19: when initializeApp's animation-frame callback has run (script.js),
\* window.themeManager is set, window.tocManager is set iff the page has
\* #toc-panel, window.bioCollapseManager iff it has .bio-content,
\* window.vibeCheckManager iff it has #vibe-check-btn, and body has class
\* 'loaded'.
\* ------------------------------------------------------------------------
C19_AppInitialized ==
  (env.impl = "script.js" /\ outcome.op = "initializeApp") =>
    /\ app.themeManager
    /\ app.tocManager <=> tocEnv.hasTOC
    /\ app.bioCollapseManager <=> bio.hasContent
    /\ app.vibeCheckManager <=> env.hasVibe
    /\ app.loaded
    /\ toc.phase # "none" <=> tocEnv.hasTOC
    /\ bio.phase # "none" <=> bio.hasContent

\* the same for a callback that no exception has ended
C19_AppInitializedUnlessThrown ==
  (env.impl = "script.js" /\ outcome.op = "initializeApp" /\ ~outcome.threw) =>
    /\ app.themeManager
    /\ app.tocManager <=> tocEnv.hasTOC
    /\ app.bioCollapseManager <=> bio.hasContent
    /\ app.vibeCheckManager <=> env.hasVibe
    /\ app.loaded
    /\ toc.phase # "none" <=> tocEnv.hasTOC
    /\ bio.phase # "none" <=> bio.hasContent

\* ------------------------------------------------------------------------
\* C20: the biography's expanded state becomes true only through a click on
\* the expand button, becomes false only on a resize to a window width above
\* 768, and a resize to a width of at most 768 leaves it unchanged.
\* ------------------------------------------------------------------------
C20_BioExpanded ==
  [][ /\ (~bio.expanded /\ bio'.expanded) => bio'.op = "click"
      /\ (bio.expanded /\ ~bio'.expanded) =>
           (bio'.op = "resize" /\ width' # width /\ width' > 768)
      /\ (width' # width /\ width' <= 768) => bio'.expanded = bio.expanded ]_vars

\* the expanded biography has survived a resize to 768
C20_Witness ==
  /\ bio.phase = "ready"
  /\ bio.op = "resize"
  /\ width = 768
  /\ bio.expanded


\* ------------------------------------------------------------------------
\* C21: the manager classes are independent: no operation of the
\* VibeCheckManager changes a field of the ThemeManager and no operation of
\* the ThemeManager changes a field of the VibeCheckManager.
\* ------------------------------------------------------------------------
VibeCheckManagerStep ==
  \/ VibeClick
  \/ LoadDone
  \/ Frame
  \/ HideTimer
  \/ PanelCloseClick
  \/ EscapeKey_vibe
  \/ ImageLoad
  \/ ImageError

C22_PanelNeverVisibleAndHidden ==
  ~({HiddenClass(World), VisibleClass(World)} \subseteq dom.panel)


\* ------------------------------------------------------------------------
\* C23: in js/toc.js, when all pending image loads have settled (the last of
\* them successfully, no error shown) in vibe mode, vibeImage's src and alt
\* are those of themes[currentThemeIndex], whatever order the loads ended in.
\* ------------------------------------------------------------------------
C23_ImageOfCurrentTheme ==
  (/\ env.impl = "js/toc.js"
   /\ outcome.op = "imageLoad"
   /\ pending.images = {}
   /\ tm.isVibeMode /\ vc.isLoaded /\ Len(vc.themes) > 0 /\ vc.currentThemeIndex # NaN
   /\ dom.errorHidden) =>
    /\ dom.imageSrc = <<"vibe-themes/images/", vc.themes[vc.currentThemeIndex + 1].image>>
    /\ dom.imageAlt = <<vc.themes[vc.currentThemeIndex + 1].name, " theme">>


\* ------------------------------------------------------------------------
\* C24: in js/toc.js at most one operation started through safeExecute is in
\* progress at a time, and isOperationInProgress is true exactly while one is,
\* in every interleaving of clicks, fetch completions and global error events.
\* ------------------------------------------------------------------------
C24_OneOperationAtATime ==
  env.impl = "js/toc.js" =>
    /\ pending.loads <= 1
    /\ vc.isOperationInProgress <=> pending.loads = 1

\* a click arriving while an operation awaits changes nothing of the manager
C24_ClickWhileAwaitingSkipped ==
  [][ (env.impl = "js/toc.js" /\ VibeClick /\ vc.isOperationInProgress) =>
        (vc' = vc /\ tm' = tm /\ dom' = dom /\ pending' = pending) ]_vars


\* ------------------------------------------------------------------------
\* C25: the vibe overrides on the root element are exactly the colours of the
\* current vibe theme: while themes[k] is shown every followed custom property
\* has the value themes[k] gives it and is unset if themes[k] does not set it;
\* outside vibe mode no followed custom property is set.
\* ------------------------------------------------------------------------
C25_OverridesAreCurrentTheme ==
  /\ (tm.isVibeMode /\ vc.isLoaded /\ Len(vc.themes) > 0 /\ vc.currentThemeIndex # NaN) =>
       LET colors == vc.themes[vc.currentThemeIndex + 1].colors
       IN \A p \in StyleProps :
            dom.rootStyle[p] = (IF p \in DOMAIN colors THEN colors[p] ELSE NoValue)
  /\ ~tm.isVibeMode => \A p \in StyleProps : dom.rootStyle[p] = NoValue

\* what holds instead: the properties the current theme sets have its values,
\* and nothing is set outside vibe mode
C25_CurrentThemeApplied ==
  /\ (tm.isVibeMode /\ vc.isLoaded /\ Len(vc.themes) > 0 /\ vc.currentThemeIndex # NaN) =>
       LET colors == vc.themes[vc.currentThemeIndex + 1].colors
       IN \A p \in DOMAIN colors : dom.rootStyle[p] = colors[p]
  /\ ~tm.isVibeMode => \A p \in StyleProps : dom.rootStyle[p] = NoValue


\* ------------------------------------------------------------------------
\* C26: after generateHeadingIds (js/toc.js) every heading has an id and the
\* ids of the headings are pairwise distinct, also for repeated texts, texts
\* that collide with a suffixed slug, empty texts and headings that carried
\* an id before the call.
\* ------------------------------------------------------------------------
C26_SlugsDistinct ==
  hg.calls > 0 =>
    /\ \A i \in DOMAIN hg.headings : hg.headings[i].id # <<>>
    /\ \A i, j \in DOMAIN hg.headings : i # j => hg.headings[i].id # hg.headings[j].id

\* when no heading carries an id before the call, the ids after it are
\* non-empty and pairwise distinct
C26_SlugsDistinctWithoutMarkupIds ==
  [][(generateHeadingIds /\ \A i \in DOMAIN hg.headings : hg.headings[i].id = <<>>) =>
       /\ \A i \in DOMAIN hg.headings : hg'.headings[i].id # <<>>
       /\ \A i, j \in DOMAIN hg.headings :
            i # j => hg'.headings[i].id # hg'.headings[j].id]_vars


\* the steps of js/toc.js that run handleResize of setupResponsiveBehavior:
\* setup (from the constructor or from DOMContentLoaded) and the debounced
\* resize callback
TocDefaultApplied ==
  /\ tocEnv.impl = "js/toc.js"
  /\ tocEnv.hasTOC
  /\ \/ TOCManager_construct /\ tocEnv.readyState # "loading"
     \/ DOMContentLoaded
     \/ ResizeTimer

\* ------------------------------------------------------------------------
\* C27: in js/toc.js, after setup and after every handled resize, the TOC is
\* collapsed when the window is narrower than 1024 px (mobile and tablet)
\* and expanded when it is at least 1024 px wide (desktop).
\* ------------------------------------------------------------------------
C27_DefaultByDesktopBreakpoint ==
  [][TocDefaultApplied => (toc'.isCollapsed <=> width' < DESKTOP_BREAKPOINT)]_vars

\* the width that decides is 768 px: collapsed below it, expanded from it on
C27_DefaultByMobileBreakpoint ==
  [][TocDefaultApplied => (toc'.isCollapsed <=> width' < MOBILE_BREAKPOINT)]_vars

========================================================================
